---- MODULE Spec2Model ----
(***************************************************************************)
(* QuizNexus: the quiz session engine (QuizApp + QuizContainer) together   *)
(* with the result sink (POST /api/quiz-results, MemStorage).              *)
(* StorageSpec is the question storage on its own: the initial load,       *)
(* createQuestion and POST /api/questions/import.                          *)
(*                                                                         *)
(* Time is counted in whole seconds.  One Tick is one firing of the        *)
(* one-second intervals; TimeUp is the run of consecutive firings that     *)
(* exhausts the quiz countdown, with no other event in between.            *)
(***************************************************************************)
EXTENDS Integers, Sequences, FiniteSets, TLC

\* ---------------------------------------------------------------- bounds
MaxTicks == 1
MaxPosts == 2
MaxWrites == 2
MaxPending == 1
MaxRestarts == 1
MaxQuestions == 3

\* ------------------------------------------------------ program constants
quizTimeLimit == 900
SessionSize == 10
expectedTime == 60

\* JS null of selectedCategory
Null == "null"
SKIPPED == "SKIPPED"

\* ------------------------------------------------------- question source
\* The question bank held by the storage: id, correctAnswer, category, options.
Pool ==
  << [id |-> 1, correctAnswer |-> "A", category |-> "x", options |-> {"A", "B"}],
     [id |-> 2, correctAnswer |-> SKIPPED, category |-> "y", options |-> {"A", "B"}] >>

QuestionIds == { Pool[i].id : i \in 1..Len(Pool) }

QuestionById(id) == CHOOSE q \in { Pool[i] : i \in 1..Len(Pool) } : q.id = id

\* The categories a caller may ask for ("z" holds no question).
CategoryInputs == {Null, "x", "z"}

\* GET /api/questions and GET /api/questions/category/:category, as ids.
getQuestions == [i \in 1..Len(Pool) |-> Pool[i].id]

getQuestionsByCategory(category) ==
  LET keep(id) == QuestionById(id).category = category
  IN SelectSeq(getQuestions, keep)

\* The data the query of a category key resolves to.
QueryData(category) ==
  IF category = Null THEN getQuestions ELSE getQuestionsByCategory(category)

Min(a, b) == IF a < b THEN a ELSE b

\* All orders of a sequence: what sort(() => 0.5 - Math.random()) can give.
Shuffles(s) ==
  { [i \in 1..Len(s) |-> s[p[i]]] :
      p \in { f \in [1..Len(s) -> 1..Len(s)] :
                \A i, j \in 1..Len(s) : i # j => f[i] # f[j] } }

\* A selection that draws each position independently from the data.
SelectQuestions_WithRepeats(data) ==
  [1..Min(SessionSize, Len(data)) -> { data[i] : i \in 1..Len(data) }]

\* shuffled.slice(0, 10)
SelectQuestions(data) ==
  { SubSeq(sh, 1, Min(SessionSize, Len(sh))) : sh \in Shuffles(data) }

\* ------------------------------------------------------ question storage
\* Map.set(id, value) on MemStorage.questions, a Map kept in insertion order: a new key
\* is added at the end, a key that exists keeps its place and gets the new value.
MapSet(stored, value) ==
  IF \E i \in 1..Len(stored) : stored[i].id = value.id
  THEN [i \in 1..Len(stored) |-> IF stored[i].id = value.id THEN value ELSE stored[i]]
  ELSE Append(stored, value)

\* { ...insertQuestion, id }
WithId(insertQuestion, id) ==
  [id |-> id, correctAnswer |-> insertQuestion.correctAnswer,
   category |-> insertQuestion.category, options |-> insertQuestion.options]

\* The questions (without id) a file or a request may carry; a category may be "".
InsertQuestions == [correctAnswer : {"A", "B"}, category : {"x", "y", ""}, options : {{"A", "B"}}]

\* Lists of at most n such questions.
QuestionLists(n) == UNION { [1..k -> InsertQuestions] : k \in 0..n }

RECURSIVE initializeSampleQuestions(_, _, _)
\* sampleQuestions.forEach: each question is stored under the next id.
initializeSampleQuestions(sampleQuestions, stored, nextId) ==
  IF sampleQuestions = <<>> THEN [questions |-> stored, currentQuestionId |-> nextId]
  ELSE initializeSampleQuestions(Tail(sampleQuestions),
                                 MapSet(stored, WithId(Head(sampleQuestions), nextId)),
                                 nextId + 1)

\* createQuestion storing under the next id without advancing it.
createQuestion_KeepsCounter(insertQuestion, stored, nextId) ==
  [questions |-> MapSet(stored, WithId(insertQuestion, nextId)),
   currentQuestionId |-> nextId]

\* MemStorage.createQuestion on the storage (stored, nextId).
createQuestion(insertQuestion, stored, nextId) ==
  [questions |-> MapSet(stored, WithId(insertQuestion, nextId)),
   currentQuestionId |-> nextId + 1]

RECURSIVE bulkCreateQuestions(_, _, _)
\* MemStorage.bulkCreateQuestions: the loop stores each question under the next id.
bulkCreateQuestions(insertQuestions, stored, nextId) ==
  IF insertQuestions = <<>> THEN [questions |-> stored, currentQuestionId |-> nextId]
  ELSE bulkCreateQuestions(Tail(insertQuestions),
                           MapSet(stored, WithId(Head(insertQuestions), nextId)),
                           nextId + 1)

\* importQuestionBankSchema.safeParse succeeds: the body has a list of questions.
ValidImport(body) == "questions" \in DOMAIN body

\* POST /api/questions/import on the storage (stored, nextId).
postQuestionsImport(body, stored, nextId) ==
  IF ~ValidImport(body)
  THEN [status |-> 400, questions |-> stored, currentQuestionId |-> nextId]
  ELSE LET created == bulkCreateQuestions(body.questions, stored, nextId)
       IN [status |-> 201, questions |-> created.questions,
           currentQuestionId |-> created.currentQuestionId]

\* MemStorage.getQuestions: Array.from(this.questions.values()).
storedQuestions(stored) == stored

\* MemStorage.getQuestionsByCategory.
storedQuestionsByCategory(stored, category) ==
  LET keep(q) == q.category = category
  IN SelectSeq(storedQuestions(stored), keep)

\* Categories taken from a fixed list, whether or not a question carries them.
getAvailableCategories_FixedList(stored) == {"x", "y"}

\* MemStorage.getAvailableCategories: the categories of the stored questions, a
\* question with an empty category adds none.
getAvailableCategories(stored) ==
  { stored[i].category : i \in { j \in 1..Len(stored) : stored[j].category # "" } }

\* GET /api/categories: one entry per available category with its number of questions.
getCategories(stored) ==
  { [id |-> category, name |-> category,
     count |-> Cardinality({ i \in 1..Len(stored) : stored[i].category = category })] :
      category \in getAvailableCategories(stored) }

\* ------------------------------------------------------------------ state
VARIABLES
  \* QuizApp
  selectedCategory,       \* string | Null
  fetching,               \* query keys with a fetch in flight
  cache,                  \* query keys whose data has arrived
  currentQuizQuestions,   \* sequence of question ids
  currentQuestionIndex,
  userAnswers,            \* sequence of UserAnswer records
  startTime,
  quizResult,             \* <<>> (null) or <<result>>
  status,                 \* "quiz" | "results"
  crashed,                \* a render threw: the tree is unmounted
  \* QuizContainer (exists while mounted)
  mounted,
  selectedOption,
  questionStartTime,
  questionTimer,
  quizTimeRemaining,
  timerRunning,           \* the quiz interval is set
  timerClosure,           \* <<>> or <<closure>>: onQuizSubmit as the timer effect captured it
  \* toast with the "Skip All" button, and its delayed resubmits
  toasts,                 \* <<>> or <<closure>>
  pending,                \* closures of the setTimeout callbacks not yet run
  \* network and result sink
  inflight,               \* POST /api/quiz-results requests not yet settled
  quizResults,            \* MemStorage.quizResults, in insertion order
  currentQuizResultId,
  storageQuestions,       \* MemStorage.questions, in insertion order
  currentQuestionId,
  \* wall clock (seconds) and the number of clock events so far
  now,
  ticks,
  restarts,               \* category changes and retakes so far
  posts,                  \* POST requests issued so far
  writes                  \* ledger writes of the user in this session

appVars == << selectedCategory, cache, currentQuizQuestions, currentQuestionIndex,
              userAnswers, startTime, quizResult, status >>
containerVars == << crashed, mounted, selectedOption, questionStartTime, questionTimer,
                    quizTimeRemaining, timerRunning, timerClosure >>
sinkVars == << quizResults, currentQuizResultId >>
questionVars == << storageQuestions, currentQuestionId >>
vars == << appVars, containerVars, fetching, toasts, pending, inflight, sinkVars, now, ticks,
          restarts, posts, writes, questionVars >>

\* -------------------------------------------------------- answer ledger
\* userAnswers.find(a => a.questionId === id): <<>> (undefined) or <<record>>
FindAnswer(answers, id) ==
  LET hit(a) == a.questionId = id
      hits == SelectSeq(answers, hit)
  IN IF hits = <<>> THEN <<>> ELSE <<hits[1]>>

\* handleAnswerSubmit appending without removing the earlier record of the question.
handleAnswerSubmit_Appends(answers, questionId, answer, timeSpent, skipped) ==
  Append(answers, [questionId |-> questionId, answer |-> answer,
                   timeSpent |-> timeSpent, skipped |-> skipped])

\* The record handleAnswerSubmit writes; an omitted skipped argument is falsy.
handleAnswerSubmit(answers, questionId, answer, timeSpent, skipped) ==
  LET other(a) == a.questionId # questionId
  IN Append(SelectSeq(answers, other),
            [questionId |-> questionId, answer |-> answer,
             timeSpent |-> timeSpent, skipped |-> skipped])

\* handleNextQuestion without its guard at the last question.
handleNextQuestion_Unclamped(index, questions) == index + 1

handleNextQuestion(index, questions) ==
  IF index < Len(questions) - 1 THEN index + 1 ELSE index

handlePreviousQuestion(index) ==
  IF index > 0 THEN index - 1 ELSE index

handleNavigateToQuestion(index, questions, target) ==
  IF target >= 0 /\ target < Len(questions) THEN target ELSE index

\* ---------------------------------------------------------------- scoring
\* QuestionResultOf with isCorrect computed from the answer text alone.
QuestionResultOf_IgnoresSkipped(id, answers) ==
  LET question == QuestionById(id)
      found == FindAnswer(answers, id)
  IN [questionId |-> id,
      userAnswer |-> IF found = <<>> THEN "" ELSE found[1].answer,
      correctAnswer |-> question.correctAnswer,
      isCorrect |-> found # <<>> /\ found[1].answer = question.correctAnswer,
      timeSpent |-> IF found = <<>> THEN 0 ELSE found[1].timeSpent,
      skipped |-> IF found = <<>> THEN FALSE ELSE found[1].skipped]

\* One entry of questionResults (questionText is a function of questionId).
QuestionResultOf(id, answers) ==
  LET question == QuestionById(id)
      found == FindAnswer(answers, id)
      isCorrect == /\ found # <<>>
                   /\ found[1].answer = question.correctAnswer
                   /\ ~found[1].skipped
  IN [questionId |-> id,
      userAnswer |-> IF found = <<>> THEN "" ELSE found[1].answer,
      correctAnswer |-> question.correctAnswer,
      isCorrect |-> isCorrect,
      timeSpent |-> IF found = <<>> THEN 0 ELSE found[1].timeSpent,
      skipped |-> IF found = <<>> THEN FALSE ELSE found[1].skipped]

\* A count that adds a bonus point for a correct answer given within the first second.
CountCorrect_WithBonus(results) ==
  Cardinality({ i \in 1..Len(results) : results[i].isCorrect })
    + Cardinality({ i \in 1..Len(results) :
                      results[i].isCorrect /\ results[i].timeSpent < 1 })

RECURSIVE CountCorrect(_)
CountCorrect(results) ==
  IF results = <<>> THEN 0
  ELSE (IF results[1].isCorrect THEN 1 ELSE 0) + CountCorrect(Tail(results))

\* A closure of handleQuizSubmit: the state of the render that created it.
Closure(questions, answers, start, category) ==
  [currentQuizQuestions |-> questions, userAnswers |-> answers,
   startTime |-> start, selectedCategory |-> category]

CurrentClosure ==
  Closure(currentQuizQuestions, userAnswers, startTime, selectedCategory)

\* The QuizResult handleQuizSubmit builds from its closure at time endTime.
QuizResultOf(cl, endTime) ==
  LET questionResults ==
        [i \in 1..Len(cl.currentQuizQuestions) |->
           QuestionResultOf(cl.currentQuizQuestions[i], cl.userAnswers)]
  IN [quizTopic |-> IF cl.selectedCategory = Null THEN "All Categories"
                    ELSE cl.selectedCategory,
      score |-> CountCorrect(questionResults),
      totalQuestions |-> Len(cl.currentQuizQuestions),
      timeSpent |-> endTime - cl.startTime,
      completedAt |-> endTime,
      questionResults |-> questionResults]

\* The gate at the head of handleQuizSubmit.
Unanswered(cl) == Len(cl.currentQuizQuestions) - Len(cl.userAnswers)

\* handleQuizSubmit without its gate on unanswered questions.
handleQuizSubmit_Ungated(cl, endTime) ==
  /\ posts < MaxPosts
  /\ posts' = posts + 1
  /\ inflight' = Append(inflight, QuizResultOf(cl, endTime))
  /\ UNCHANGED toasts

\* handleQuizSubmit run from the closure cl: a toast offering "Skip All", or a POST.
handleQuizSubmit(cl, endTime) ==
  IF Unanswered(cl) > 0
  THEN /\ toasts' = <<cl>>
       /\ UNCHANGED << inflight, posts >>
  ELSE /\ posts < MaxPosts
       /\ posts' = posts + 1
       /\ inflight' = Append(inflight, QuizResultOf(cl, endTime))
       /\ UNCHANGED toasts

\* ------------------------------------------------------------ result sink
\* ensureQuestionResultArray: the stored entry is rebuilt field by field, without skipped.
ensureQuestionResultArray(arr) ==
  [i \in 1..Len(arr) |->
     [questionId |-> arr[i].questionId,
      userAnswer |-> arr[i].userAnswer,
      correctAnswer |-> arr[i].correctAnswer,
      isCorrect |-> arr[i].isCorrect,
      timeSpent |-> arr[i].timeSpent]]

\* The record MemStorage.createQuizResult stores under id.
createQuizResult(insertQuizResult, id) ==
  [id |-> id,
   quizTopic |-> insertQuizResult.quizTopic,
   score |-> insertQuizResult.score,
   totalQuestions |-> insertQuizResult.totalQuestions,
   timeSpent |-> insertQuizResult.timeSpent,
   completedAt |-> insertQuizResult.completedAt,
   questionResults |-> ensureQuestionResultArray(insertQuizResult.questionResults)]

\* MemStorage.getQuizResult: <<>> for undefined.
getQuizResult(stored, id) ==
  LET hit(r) == r.id = id
      hits == SelectSeq(stored, hit)
  IN IF hits = <<>> THEN <<>> ELSE <<hits[Len(hits)]>>

\* insertQuizResultSchema.safeParse succeeds: every column of quiz_results but id is
\* required.
ValidBody(body) ==
  {"quizTopic", "score", "totalQuestions", "timeSpent", "completedAt",
   "questionResults"} \subseteq DOMAIN body

\* Request bodies that fail validation: a field is missing.
InvalidBodies ==
  { [quizTopic |-> "x", totalQuestions |-> 1, timeSpent |-> 0, completedAt |-> 0,
     questionResults |-> <<>>],
    [quizTopic |-> "x", score |-> 1, totalQuestions |-> 1, timeSpent |-> 0,
     completedAt |-> 0],
    [score |-> 0] }

\* The route storing under the next identity without advancing it.
postQuizResults_ReusesId(body, stored, nextId) ==
  IF ~ValidBody(body)
  THEN [status |-> 400, quizResults |-> stored, currentQuizResultId |-> nextId]
  ELSE [status |-> 201,
        quizResults |-> Append(stored, createQuizResult(body, nextId)),
        currentQuizResultId |-> nextId]

\* POST /api/quiz-results on the storage (stored, nextId): the response status and the
\* storage afterwards.
postQuizResults(body, stored, nextId) ==
  IF ~ValidBody(body)
  THEN [status |-> 400, quizResults |-> stored, currentQuizResultId |-> nextId]
  ELSE [status |-> 201,
        quizResults |-> Append(stored, createQuizResult(body, nextId)),
        currentQuizResultId |-> nextId + 1]

\* ------------------------------------------------- rendering of QuizApp
\* QuizApp shows QuizContainer: not loading, a question set, and not the results.
ShowsQuiz(category, cached, questions, stat, result) ==
  /\ category \in cached
  /\ Len(questions) > 0
  /\ ~(stat = "results" /\ result # <<>>)

ShowsResults ==
  /\ ~crashed
  /\ selectedCategory \in cache
  /\ Len(currentQuizQuestions) > 0
  /\ status = "results" /\ quizResult # <<>>

\* The question routes answer 200 with the list of questions, also when it is empty:
\* the query of a category never ends in an error.
QueryError(category) == FALSE

\* What QuizApp returns, in the order of its early returns ("blank": a render threw).
View ==
  IF crashed THEN "blank"
  ELSE IF selectedCategory \notin cache \/ Len(currentQuizQuestions) = 0 THEN "loading"
  ELSE IF QueryError(selectedCategory) THEN "error"
  ELSE IF status = "results" /\ quizResult # <<>> THEN "results"
  ELSE "quiz"

\* The state of QuizContainer as a record.
Container ==
  [crashed |-> crashed, mounted |-> mounted, selectedOption |-> selectedOption,
   questionStartTime |-> questionStartTime, questionTimer |-> questionTimer,
   quizTimeRemaining |-> quizTimeRemaining, timerRunning |-> timerRunning,
   timerClosure |-> timerClosure]

\* No QuizContainer: its state is gone and its intervals are cleared.
Unmounted(isCrashed) ==
  [crashed |-> isCrashed, mounted |-> FALSE, selectedOption |-> "",
   questionStartTime |-> 0, questionTimer |-> 0,
   quizTimeRemaining |-> quizTimeLimit, timerRunning |-> FALSE,
   timerClosure |-> <<>>]

\* The question timer effect restarting the quiz countdown as well.
QuestionEffect_RestartsCountdown(qc, questions, index, answers) ==
  LET found == FindAnswer(answers, questions[index + 1])
  IN [qc EXCEPT !.questionStartTime = now,
                !.questionTimer = 0,
                !.quizTimeRemaining = quizTimeLimit,
                !.selectedOption = IF found = <<>> THEN "" ELSE found[1].answer]

\* The question timer effect leaving the question clock as it is.
QuestionEffect_KeepsClock(qc, questions, index, answers) ==
  LET found == FindAnswer(answers, questions[index + 1])
  IN [qc EXCEPT !.selectedOption = IF found = <<>> THEN "" ELSE found[1].answer]

\* The question timer effect: restart the question clock, restore the selection.
QuestionEffect(qc, questions, index, answers) ==
  LET found == FindAnswer(answers, questions[index + 1])
  IN [qc EXCEPT !.questionStartTime = now,
                !.questionTimer = 0,
                !.selectedOption = IF found = <<>> THEN "" ELSE found[1].answer]

\* The render that follows a state change.  qc is QuizContainer after the handler's
\* own setState calls; mountQuestions is the question set of the render in which
\* QuizContainer would mount (the quiz timer effect captures that render's
\* onQuizSubmit).
Render(qc, category, cached, questions, index, answers, start, stat, result, mountQuestions) ==
  IF qc.crashed
    THEN qc
  ELSE IF ~ShowsQuiz(category, cached, questions, stat, result)
    THEN Unmounted(FALSE)
  ELSE IF index >= Len(questions)
    THEN Unmounted(TRUE)
  ELSE IF ~qc.mounted
    THEN QuestionEffect(
           [Unmounted(FALSE) EXCEPT
              !.mounted = TRUE,
              !.quizTimeRemaining = quizTimeLimit,
              !.timerRunning = TRUE,
              !.timerClosure = <<Closure(mountQuestions, answers, start, category)>>],
           questions, index, answers)
  ELSE IF \/ index # currentQuestionIndex
          \/ questions[index + 1] # currentQuizQuestions[currentQuestionIndex + 1]
    THEN QuestionEffect(qc, questions, index, answers)
  ELSE qc

SetContainer(qc) ==
  /\ crashed' = qc.crashed
  /\ mounted' = qc.mounted
  /\ selectedOption' = qc.selectedOption
  /\ questionStartTime' = qc.questionStartTime
  /\ questionTimer' = qc.questionTimer
  /\ quizTimeRemaining' = qc.quizTimeRemaining
  /\ timerRunning' = qc.timerRunning
  /\ timerClosure' = qc.timerClosure

\* Commit the new QuizApp state and render.
Commit(qc, category, cached, questions, index, answers, start, stat, result, mountQuestions) ==
  /\ selectedCategory' = category
  /\ cache' = cached
  /\ currentQuizQuestions' = questions
  /\ currentQuestionIndex' = index
  /\ userAnswers' = answers
  /\ startTime' = start
  /\ status' = stat
  /\ quizResult' = result
  /\ SetContainer(Render(qc, category, cached, questions, index, answers, start,
                         stat, result, mountQuestions))

\* The question set of the mounting render after new query data arrived: the old set
\* if there is one (the questions effect replaces it only after that render).
MountQuestions(newQuestions) ==
  IF Len(currentQuizQuestions) > 0 THEN currentQuizQuestions ELSE newQuestions

\* ------------------------------------------------------------------ Init
\* The client before its first fetch completes, and the empty result sink.
ClientInit ==
  /\ selectedCategory = Null
  /\ fetching = {Null}
  /\ cache = {}
  /\ currentQuizQuestions = <<>>
  /\ currentQuestionIndex = 0
  /\ userAnswers = <<>>
  /\ startTime = 0
  /\ quizResult = <<>>
  /\ status = "quiz"
  /\ crashed = FALSE
  /\ mounted = FALSE
  /\ selectedOption = ""
  /\ questionStartTime = 0
  /\ questionTimer = 0
  /\ quizTimeRemaining = quizTimeLimit
  /\ timerRunning = FALSE
  /\ timerClosure = <<>>
  /\ toasts = <<>>
  /\ pending = <<>>
  /\ inflight = <<>>
  /\ quizResults = <<>>
  /\ currentQuizResultId = 1
  /\ now = 0
  /\ ticks = 0
  /\ restarts = 0
  /\ posts = 0
  /\ writes = 0

\* The storage has loaded the question bank Pool.
Init ==
  /\ ClientInit
  /\ storageQuestions = Pool
  /\ currentQuestionId = Len(Pool) + 1

\* ---------------------------------------------------- question loading
CurrentId == currentQuizQuestions[currentQuestionIndex + 1]

\* The query of key k resolves.  For the selected key the questions effect installs a
\* fresh selection when the data is not empty.
FetchComplete(k) ==
  /\ k \in fetching
  /\ fetching' = fetching \ {k}
  /\ IF crashed \/ k # selectedCategory \/ QueryData(k) = <<>>
     THEN Commit(Container, selectedCategory, cache \cup {k}, currentQuizQuestions,
                 currentQuestionIndex, userAnswers, startTime, status, quizResult,
                 currentQuizQuestions)
     ELSE \E selected \in SelectQuestions(QueryData(k)) :
            Commit(Container, selectedCategory, cache \cup {k}, selected,
                   currentQuestionIndex, userAnswers, startTime, status, quizResult,
                   MountQuestions(selected))
  /\ UNCHANGED << toasts, pending, inflight, sinkVars, questionVars, now, ticks, restarts, posts, writes >>

\* The category select of the page (or its URL parameter) changes the category.
CategoryChange(category) ==
  /\ ~crashed
  /\ category \in CategoryInputs
  /\ category # selectedCategory
  /\ restarts < MaxRestarts
  /\ restarts' = restarts + 1
  /\ IF category \notin cache
     THEN /\ fetching' = fetching \cup {category}
          /\ Commit(Container, category, cache, currentQuizQuestions,
                    currentQuestionIndex, userAnswers, startTime, status, quizResult,
                    currentQuizQuestions)
     ELSE /\ UNCHANGED fetching
          /\ IF QueryData(category) = <<>>
             THEN Commit(Container, category, cache, currentQuizQuestions,
                         currentQuestionIndex, userAnswers, startTime, status,
                         quizResult, currentQuizQuestions)
             ELSE \E selected \in SelectQuestions(QueryData(category)) :
                    Commit(Container, category, cache, selected,
                           currentQuestionIndex, userAnswers, startTime, status,
                           quizResult, MountQuestions(selected))
  /\ UNCHANGED << toasts, pending, inflight, sinkVars, questionVars, now, ticks, posts, writes >>

\* ------------------------------------------------ QuizContainer handlers
TimeSpent == now - questionStartTime

\* handleOptionSelect
SelectOption(option) ==
  /\ mounted
  /\ writes < MaxWrites
  /\ writes' = writes + 1
  /\ option \in QuestionById(CurrentId).options
  /\ Commit([Container EXCEPT !.selectedOption = option],
            selectedCategory, cache, currentQuizQuestions, currentQuestionIndex,
            handleAnswerSubmit(userAnswers, CurrentId, option, TimeSpent, FALSE),
            startTime, status, quizResult, currentQuizQuestions)
  /\ UNCHANGED << fetching, toasts, pending, inflight, sinkVars, questionVars, now, ticks, restarts, posts >>

\* handleSkipQuestion
SkipQuestion ==
  /\ mounted
  /\ writes < MaxWrites
  /\ writes' = writes + 1
  /\ Commit(Container, selectedCategory, cache, currentQuizQuestions,
            IF currentQuestionIndex < Len(currentQuizQuestions) - 1
              THEN handleNextQuestion(currentQuestionIndex, currentQuizQuestions)
              ELSE currentQuestionIndex,
            handleAnswerSubmit(userAnswers, CurrentId, SKIPPED, TimeSpent, TRUE),
            startTime, status, quizResult, currentQuizQuestions)
  /\ UNCHANGED << fetching, toasts, pending, inflight, sinkVars, questionVars, now, ticks, restarts, posts >>

\* handleNext
NextQuestion ==
  /\ mounted
  /\ Commit(Container, selectedCategory, cache, currentQuizQuestions,
            handleNextQuestion(currentQuestionIndex, currentQuizQuestions),
            userAnswers, startTime, status, quizResult, currentQuizQuestions)
  /\ UNCHANGED << fetching, toasts, pending, inflight, sinkVars, questionVars, now, ticks, restarts, posts, writes >>

\* handlePrevious
PreviousQuestion ==
  /\ mounted
  /\ Commit(Container, selectedCategory, cache, currentQuizQuestions,
            handlePreviousQuestion(currentQuestionIndex),
            userAnswers, startTime, status, quizResult, currentQuizQuestions)
  /\ UNCHANGED << fetching, toasts, pending, inflight, sinkVars, questionVars, now, ticks, restarts, posts, writes >>

\* onClick of the question pill of index target
PillClick(target) ==
  /\ mounted
  /\ target \in 0..(Len(currentQuizQuestions) - 1)
  /\ selectedOption # "" => writes < MaxWrites
  /\ writes' = IF selectedOption # "" THEN writes + 1 ELSE writes
  /\ Commit(Container, selectedCategory, cache, currentQuizQuestions,
            handleNavigateToQuestion(currentQuestionIndex, currentQuizQuestions, target),
            IF selectedOption # ""
              THEN handleAnswerSubmit(userAnswers, CurrentId, selectedOption,
                                      TimeSpent, FALSE)
              ELSE userAnswers,
            startTime, status, quizResult, currentQuizQuestions)
  /\ UNCHANGED << fetching, toasts, pending, inflight, sinkVars, questionVars, now, ticks, restarts, posts >>

\* handleSubmit of the Submit Quiz button: warn, or call onQuizSubmit of this render.
SubmitClick ==
  /\ mounted
  /\ IF Len(currentQuizQuestions) - Len(userAnswers) > 0
     THEN UNCHANGED << toasts, inflight, posts >>
     ELSE handleQuizSubmit(CurrentClosure, now)
  /\ UNCHANGED << appVars, containerVars, fetching, pending, sinkVars, questionVars, now, ticks, restarts, writes >>

\* ------------------------------------------------------------- timers
\* Tick with intervals that outlive QuizContainer.
Tick_IgnoresUnmount ==
  /\ ticks < MaxTicks
  /\ ~(mounted /\ timerRunning /\ quizTimeRemaining <= 1)
  /\ ticks' = ticks + 1
  /\ now' = now + 1
  /\ questionTimer' = questionTimer + 1
  /\ quizTimeRemaining' = IF quizTimeRemaining > 0 THEN quizTimeRemaining - 1 ELSE 0
  /\ UNCHANGED << appVars, crashed, mounted, selectedOption, questionStartTime,
                  timerRunning, timerClosure, fetching, toasts, pending, inflight,
                  sinkVars, questionVars, restarts, posts, writes >>

\* One firing of the one-second intervals: the question clock counts up, the quiz
\* countdown counts down.
Tick ==
  /\ ticks < MaxTicks
  /\ ~(mounted /\ timerRunning /\ quizTimeRemaining <= 1)
  /\ ticks' = ticks + 1
  /\ now' = now + 1
  /\ questionTimer' = IF mounted THEN questionTimer + 1 ELSE questionTimer
  /\ quizTimeRemaining' = IF mounted /\ timerRunning THEN quizTimeRemaining - 1
                          ELSE quizTimeRemaining
  /\ UNCHANGED << appVars, crashed, mounted, selectedOption, questionStartTime,
                  timerRunning, timerClosure, fetching, toasts, pending, inflight,
                  sinkVars, questionVars, restarts, posts, writes >>

\* The quiz countdown runs out: the remaining firings of the intervals with nothing
\* else happening in between.  The last one clears the quiz interval and calls the
\* onQuizSubmit its effect captured at mount.
TimeUp ==
  /\ ticks < MaxTicks
  /\ mounted /\ timerRunning
  /\ ticks' = ticks + 1
  /\ now' = now + quizTimeRemaining
  /\ questionTimer' = questionTimer + quizTimeRemaining
  /\ quizTimeRemaining' = 0
  /\ timerRunning' = FALSE
  /\ handleQuizSubmit(timerClosure[1], now + quizTimeRemaining)
  /\ UNCHANGED << appVars, crashed, mounted, selectedOption, questionStartTime,
                  timerClosure, fetching, pending, sinkVars, questionVars, restarts, writes >>

\* The "percent of expected time remaining" shown for the question clock.
timerPercent ==
  LET percent == 100 - (questionTimer * 100) \div expectedTime
  IN IF percent > 0 THEN percent ELSE 0

\* ----------------------------------------------- the "Skip All" toast
RECURSIVE SkipAll(_, _, _)
\* forEach question of the closure without an answer in the closure: record a skip.
SkipAll(questions, closureAnswers, answers) ==
  IF questions = <<>> THEN answers
  ELSE SkipAll(Tail(questions), closureAnswers,
               IF FindAnswer(closureAnswers, Head(questions)) = <<>>
                 THEN handleAnswerSubmit(answers, Head(questions), SKIPPED, 0, TRUE)
                 ELSE answers)

\* onClick of "Skip All": skip what the closure sees unanswered, resubmit after 100 ms.
SkipAllClick ==
  /\ ~crashed
  /\ toasts # <<>>
  /\ Len(pending) < MaxPending
  /\ writes < MaxWrites
  /\ writes' = writes + 1
  /\ pending' = Append(pending, toasts[1])
  /\ Commit(Container, selectedCategory, cache, currentQuizQuestions,
            currentQuestionIndex,
            SkipAll(toasts[1].currentQuizQuestions, toasts[1].userAnswers, userAnswers),
            startTime, status, quizResult, currentQuizQuestions)
  /\ UNCHANGED << fetching, toasts, inflight, sinkVars, questionVars, now, ticks, restarts, posts >>

\* The setTimeout callback: handleQuizSubmit of the same closure again.
ResubmitTimeout ==
  /\ ~crashed
  /\ pending # <<>>
  /\ pending' = Tail(pending)
  /\ handleQuizSubmit(Head(pending), now)
  /\ UNCHANGED << appVars, containerVars, fetching, sinkVars, questionVars, now, ticks, restarts, writes >>

\* ---------------------------------------- POST /api/quiz-results and back
RemoveAt(s, i) == SubSeq(s, 1, i - 1) \o SubSeq(s, i + 1, Len(s))

\* The request reaches the route handler.  A valid body is stored by
\* storage.createQuizResult, and the 201 response runs setQuizResult(result);
\* onStatusChange('results'); a 400 response runs the catch branch.
SaveAcknowledged(i) ==
  /\ i \in 1..Len(inflight)
  /\ LET response == postQuizResults(inflight[i], quizResults, currentQuizResultId)
         ok == response.status = 201 /\ ~crashed
     IN /\ quizResults' = response.quizResults
        /\ currentQuizResultId' = response.currentQuizResultId
        /\ Commit(Container, selectedCategory, cache, currentQuizQuestions,
                  currentQuestionIndex, userAnswers, startTime,
                  IF ok THEN "results" ELSE status,
                  IF ok THEN <<inflight[i]>> ELSE quizResult,
                  currentQuizQuestions)
  /\ inflight' = RemoveAt(inflight, i)
  /\ UNCHANGED << fetching, toasts, pending, now, ticks, restarts, posts, writes,
                  questionVars >>

\* SaveFailed with the catch branch showing the results as the then branch does.
SaveFailed_ShowsResults(i) ==
  /\ i \in 1..Len(inflight)
  /\ inflight' = RemoveAt(inflight, i)
  /\ Commit(Container, selectedCategory, cache, currentQuizQuestions,
            currentQuestionIndex, userAnswers, startTime,
            IF crashed THEN status ELSE "results",
            IF crashed THEN quizResult ELSE <<inflight[i]>>,
            currentQuizQuestions)
  /\ UNCHANGED << fetching, toasts, pending, sinkVars, questionVars, now, ticks, restarts, posts,
                  writes >>

\* The fetch rejects before the request is served: the catch branch only shows an
\* error toast.
SaveFailed(i) ==
  /\ i \in 1..Len(inflight)
  /\ inflight' = RemoveAt(inflight, i)
  /\ UNCHANGED << appVars, containerVars, fetching, toasts, pending, sinkVars, questionVars, now,
                  ticks, restarts, posts, writes >>

\* ------------------------------------------------------------- retake
\* handleRetakeQuiz without setUserAnswers([]).
RetakeQuiz_KeepsLedger ==
  /\ ShowsResults
  /\ restarts < MaxRestarts
  /\ restarts' = restarts + 1
  /\ writes' = 0
  /\ IF QueryData(selectedCategory) = <<>>
     THEN Commit(Container, selectedCategory, cache, currentQuizQuestions, 0,
                 userAnswers, now, "quiz", quizResult, currentQuizQuestions)
     ELSE \E selected \in SelectQuestions(QueryData(selectedCategory)) :
            Commit(Container, selectedCategory, cache, selected, 0, userAnswers,
                   now, "quiz", quizResult, selected)
  /\ UNCHANGED << fetching, toasts, pending, inflight, sinkVars, questionVars, now, ticks, posts >>

\* handleRetakeQuiz, from the results view.
RetakeQuiz ==
  /\ ShowsResults
  /\ restarts < MaxRestarts
  /\ restarts' = restarts + 1
  /\ writes' = 0
  /\ IF QueryData(selectedCategory) = <<>>
     THEN Commit(Container, selectedCategory, cache, currentQuizQuestions, 0, <<>>,
                 now, "quiz", quizResult, currentQuizQuestions)
     ELSE \E selected \in SelectQuestions(QueryData(selectedCategory)) :
            Commit(Container, selectedCategory, cache, selected, 0, <<>>,
                   now, "quiz", quizResult, selected)
  /\ UNCHANGED << fetching, toasts, pending, inflight, sinkVars, questionVars, now, ticks, posts >>

\* ------------------------------------------------------------------ Next
Next ==
  \/ \E k \in CategoryInputs : FetchComplete(k)
  \/ \E category \in CategoryInputs : CategoryChange(category)
  \/ \E option \in {"A", "B"} : SelectOption(option)
  \/ SkipQuestion
  \/ NextQuestion
  \/ PreviousQuestion
  \/ \E target \in 0..(Len(Pool) - 1) : PillClick(target)
  \/ SubmitClick
  \/ Tick
  \/ TimeUp
  \/ SkipAllClick
  \/ ResubmitTimeout
  \/ \E i \in 1..MaxPosts : SaveAcknowledged(i)
  \/ \E i \in 1..MaxPosts : SaveFailed(i)
  \/ RetakeQuiz

Spec == Init /\ [][Next]_vars

\* ------------------------------------------- the question storage on its own
\* The constructor: initializeSampleQuestions stores what loadQuestionsFromFile read
\* (nothing, if the file is missing or malformed).
StorageInit ==
  /\ ClientInit
  /\ \E sampleQuestions \in QuestionLists(1) :
       LET loaded == initializeSampleQuestions(sampleQuestions, <<>>, 1)
       IN /\ storageQuestions = loaded.questions
          /\ currentQuestionId = loaded.currentQuestionId

\* storage.createQuestion(insertQuestion)
CreateQuestion(insertQuestion) ==
  /\ Len(storageQuestions) < MaxQuestions
  /\ LET created == createQuestion(insertQuestion, storageQuestions, currentQuestionId)
     IN /\ storageQuestions' = created.questions
        /\ currentQuestionId' = created.currentQuestionId
  /\ UNCHANGED << appVars, containerVars, fetching, toasts, pending, inflight, sinkVars,
                  now, ticks, restarts, posts, writes >>

\* The request bodies of an import: a list of questions, or no list at all.
ImportBodies == { [questions |-> list] : list \in QuestionLists(2) } \cup { [name |-> "bank"] }

\* POST /api/questions/import with the given body
ImportQuestions(body) ==
  /\ ValidImport(body) => Len(storageQuestions) + Len(body.questions) <= MaxQuestions
  /\ LET response == postQuestionsImport(body, storageQuestions, currentQuestionId)
     IN /\ storageQuestions' = response.questions
        /\ currentQuestionId' = response.currentQuestionId
  /\ UNCHANGED << appVars, containerVars, fetching, toasts, pending, inflight, sinkVars,
                  now, ticks, restarts, posts, writes >>

StorageNext ==
  \/ \E insertQuestion \in InsertQuestions : CreateQuestion(insertQuestion)
  \/ \E body \in ImportBodies : ImportQuestions(body)

StorageSpec == StorageInit /\ [][StorageNext]_vars

\* ======================================================== properties
Range(s) == { s[i] : i \in 1..Len(s) }

\* A step that issues a POST, and the ScoredResult it carries.
Posted == posts' = posts + 1
NewResult == inflight'[Len(inflight')]

\* The step in which the quiz countdown reaches zero and calls onQuizSubmit.
TimerExpires == timerRunning /\ mounted' /\ ~timerRunning' /\ quizTimeRemaining' = 0

\* The step in which a delayed "Skip All" resubmit runs.
ResubmitRuns == pending # <<>> /\ pending' = Tail(pending)

\* The step in which a persist fails: a request leaves and the sink stores nothing.
PersistFails == Len(inflight') = Len(inflight) - 1 /\ quizResults' = quizResults

\* The ScoredResults the client holds: in flight, or shown.
HeldResults == Range(inflight) \cup Range(quizResult)

\* The closures a submit can run from in this step.
SubmitClosures == {CurrentClosure} \cup Range(timerClosure) \cup Range(pending)

\* The session is Submitted: the results view has a result to show.
Submitted == status = "results" /\ quizResult # <<>>

\* C1 (as claimed): every ScoredResult handed to the sink has one QuestionResult per
\* question of the current question set, in the order of the set.
C1_ResultFollowsQuestionSet ==
  [][Posted =>
       /\ Len(NewResult.questionResults) = Len(currentQuizQuestions)
       /\ \A i \in 1..Len(currentQuizQuestions) :
            NewResult.questionResults[i].questionId = currentQuizQuestions[i]]_vars

\* C2: in every QuestionResult of every ScoredResult, isCorrect implies not skipped.
C2_CorrectImpliesNotSkipped ==
  \A r \in HeldResults :
    \A i \in 1..Len(r.questionResults) :
      r.questionResults[i].isCorrect => ~r.questionResults[i].skipped

\* C2 witness: a ScoredResult holds a skipped question whose stored answer text equals
\* the correct answer, and it is not counted correct.
C2_Witness ==
  \E r \in HeldResults :
    \E i \in 1..Len(r.questionResults) :
      /\ r.questionResults[i].skipped
      /\ r.questionResults[i].userAnswer = r.questionResults[i].correctAnswer
      /\ ~r.questionResults[i].isCorrect

\* The questions of the current set that the current ledger answers correctly.
CorrectNow ==
  { i \in 1..Len(currentQuizQuestions) :
      \E a \in Range(userAnswers) :
        /\ a.questionId = currentQuizQuestions[i]
        /\ a.answer = QuestionById(currentQuizQuestions[i]).correctAnswer
        /\ ~a.skipped }

\* C3 (as claimed): the score of every ScoredResult handed to the sink counts the
\* questions of the set with a correct, not skipped ledger record, totalQuestions is
\* the length of the set, and 0 <= score <= totalQuestions.
C3_ScoreCountsCorrectRecords ==
  [][Posted =>
       /\ NewResult.score = Cardinality(CorrectNow)
       /\ NewResult.totalQuestions = Len(currentQuizQuestions)
       /\ 0 <= NewResult.score /\ NewResult.score <= NewResult.totalQuestions]_vars

DefaultsForMissing(r, cl) ==
  \A i \in 1..Len(cl.currentQuizQuestions) :
    FindAnswer(cl.userAnswers, cl.currentQuizQuestions[i]) = <<>> =>
      /\ r.questionResults[i].userAnswer = ""
      /\ r.questionResults[i].skipped = FALSE
      /\ r.questionResults[i].timeSpent = 0
      /\ r.questionResults[i].isCorrect = FALSE

C5_ForcedSubmitScoresCurrentLedger ==
  [][TimerExpires =>
       (Posted /\ NewResult = QuizResultOf(CurrentClosure, now'))]_vars

\* C6 (as claimed): while a persist call is in flight no further persist call is issued.
C6_NoPersistWhileInFlight ==
  [][inflight # <<>> => ~Posted]_vars

\* C7 (as claimed): a forced submit that finds a submit already in flight changes
\* nothing.
C7_ForcedSubmitNoOpWhileInFlight ==
  [][(TimerExpires /\ inflight # <<>>) => inflight' = inflight]_vars

\* C8 (as claimed): once Submitted, the ScoredResult shown does not change and no
\* persist call is issued (until a retake leaves Submitted).
C8_SubmittedResultFrozen ==
  [][(Submitted /\ status' = "results") =>
       (quizResult' = quizResult /\ ~Posted)]_vars

\* C9 (as claimed): when a persist fails, the ScoredResult it carried is still held for
\* the retry.
C9_FailedResultPreserved ==
  [][PersistFails =>
       \A r \in Range(inflight) : r \in Range(inflight') \cup Range(quizResult')]_vars

\* The sink stores the result r.
StoredBySink(r, stored) ==
  \E k \in 1..Len(stored) : stored[k] = createQuizResult(r, stored[k].id)

\* C10: the session becomes Submitted only in a step in which the sink stores the
\* result that is then shown; a result shown is always one the sink stored; a failed
\* persist leaves the status and the result shown as they are.
C10_SubmittedOnlyAfterAcknowledgement ==
  [][/\ (Submitted' /\ ~Submitted) =>
          /\ Len(quizResults') = Len(quizResults) + 1
          /\ quizResults'[Len(quizResults')]
               = createQuizResult(quizResult'[1], currentQuizResultId)
     /\ Submitted' => StoredBySink(quizResult'[1], quizResults')
     /\ PersistFails => (status' = status /\ quizResult' = quizResult)]_vars

\* C10 witness: after one failed and one acknowledged persist the session is Submitted
\* with the stored result.
C10_Witness ==
  /\ Submitted
  /\ posts = 2 /\ inflight = <<>>
  /\ Len(quizResults) = 1
  /\ StoredBySink(quizResult[1], quizResults)

\* ------------------------------------------------------------ the ledger
\* The ledger records of question q (at most one in a well-formed ledger).
RecordsOf(answers, q) == { a \in Range(answers) : a.questionId = q }

\* A step in which a QuizContainer handler records for the displayed question (an
\* option, Skip, or the save of a question pill).
RecordsCurrent == mounted /\ writes' = writes + 1 /\ pending' = pending

\* The records an answer and a skip on the displayed question write in this step.
AnswerRecord(option) ==
  [questionId |-> CurrentId, answer |-> option, timeSpent |-> TimeSpent,
   skipped |-> FALSE]
SkipRecord ==
  [questionId |-> CurrentId, answer |-> SKIPPED, timeSpent |-> TimeSpent,
   skipped |-> TRUE]

\* C11: the ledger never holds two records of one question, and a handler that
\* records for the displayed question leaves exactly one record of it and the records
\* of every other question as they were.
C11_OneRecordPerQuestion ==
  [][/\ \A i, j \in 1..Len(userAnswers') :
          userAnswers'[i].questionId = userAnswers'[j].questionId => i = j
     /\ RecordsCurrent =>
          /\ Cardinality(RecordsOf(userAnswers', CurrentId)) = 1
          /\ \A q \in QuestionIds \ {CurrentId} :
               RecordsOf(userAnswers', q) = RecordsOf(userAnswers, q)]_vars

\* C11 witness: two recordings were made for one question of a two-question set, and
\* the ledger holds one record.
C11_Witness ==
  /\ writes = 2 /\ toasts = <<>>
  /\ Len(userAnswers) = 1
  /\ Len(currentQuizQuestions) = 2

\* C12 (as claimed): the record of a question reflects the last answer or skip made
\* on it: the record of a skipped question changes only by an answer on that question
\* (which stays on the question and stores one of its options, not skipped) or by
\* another skip of it.
C12_LastActionWins ==
  [][\A q \in QuestionIds :
       (/\ mounted /\ mounted' /\ pending' = pending
        /\ \E a \in RecordsOf(userAnswers, q) : a.skipped
        /\ RecordsOf(userAnswers', q) # RecordsOf(userAnswers, q))
       => /\ q = CurrentId
          /\ \/ /\ currentQuestionIndex' = currentQuestionIndex
                /\ \E option \in QuestionById(q).options :
                     RecordsOf(userAnswers', q) = {AnswerRecord(option)}
             \/ RecordsOf(userAnswers', q) = {SkipRecord}]_vars

\* C13 (as claimed): moving to another question without pressing Skip leaves the
\* record of an answered question as it is, timeSpent included.
C13_RevisitKeepsRecord ==
  [][\A q \in QuestionIds :
       (/\ mounted /\ mounted'
        /\ currentQuizQuestions' = currentQuizQuestions
        /\ currentQuestionIndex' # currentQuestionIndex
        /\ \E a \in RecordsOf(userAnswers, q) : ~a.skipped
        /\ RecordsOf(userAnswers', q) # {SkipRecord})
       => RecordsOf(userAnswers', q) = RecordsOf(userAnswers, q)]_vars

\* C14 (as claimed): a ledger record has the answer "SKIPPED" exactly if it is flagged
\* skipped.
C14_SentinelIffSkipped ==
  \A a \in Range(userAnswers) : (a.answer = SKIPPED) <=> a.skipped

\* C15 (as claimed): every ledger record belongs to a question of the current
\* question set.
C15_LedgerWithinQuestionSet ==
  \A a \in Range(userAnswers) : a.questionId \in Range(currentQuizQuestions)

\* C16 (as claimed): whenever QuizApp renders the quiz (data loaded, a question set,
\* not the results), the current index is an index of the question set.
C16_IndexWithinQuestionSet ==
  ShowsQuiz(selectedCategory, cache, currentQuizQuestions, status, quizResult)
    => (0 <= currentQuestionIndex
        /\ currentQuestionIndex < Len(currentQuizQuestions))

\* Navigation leaves the ledger and the question set alone and raises no error.
NavigationFrame ==
  /\ userAnswers' = userAnswers
  /\ currentQuizQuestions' = currentQuizQuestions
  /\ ~crashed'

\* Targets outside the question set.
OutOfRange == {-1, Len(currentQuizQuestions), Len(currentQuizQuestions) + 1}

\* C17: Next moves the index by one and does nothing at the last question, Previous
\* moves it back by one and does nothing at the first, a pill sets the index to its
\* target, and handleNavigateToQuestion keeps the index for a target outside the set;
\* none of them raises an error or changes the question set, and Next, Previous and an
\* out-of-range target leave the ledger as it is.
C17_NavigationClamps ==
  [][/\ NextQuestion =>
          /\ currentQuestionIndex' =
               IF currentQuestionIndex < Len(currentQuizQuestions) - 1
               THEN currentQuestionIndex + 1 ELSE currentQuestionIndex
          /\ NavigationFrame
     /\ PreviousQuestion =>
          /\ currentQuestionIndex' =
               IF currentQuestionIndex > 0
               THEN currentQuestionIndex - 1 ELSE currentQuestionIndex
          /\ NavigationFrame
     /\ \A target \in 0..(Len(Pool) - 1) :
          PillClick(target) =>
            /\ currentQuestionIndex' = target
            /\ currentQuizQuestions' = currentQuizQuestions
            /\ ~crashed'
     /\ mounted =>
          \A target \in OutOfRange :
            handleNavigateToQuestion(currentQuestionIndex, currentQuizQuestions,
                                     target) = currentQuestionIndex]_vars

\* C17 witness: the last question of a two-question set is displayed, reached by
\* navigation alone, where Next does nothing more.
C17_Witness ==
  /\ mounted /\ ~crashed
  /\ Len(currentQuizQuestions) = 2
  /\ currentQuestionIndex = Len(currentQuizQuestions) - 1
  /\ userAnswers = <<>> /\ writes = 0

\* C18 (as claimed): when the question set of a running quiz is replaced, the index is
\* 0, the ledger is empty, the start time is that instant and the countdown is 900.
C18_NewSetResetsSession ==
  [][(status = "quiz" /\ currentQuizQuestions # <<>>
      /\ currentQuizQuestions' # currentQuizQuestions)
     => /\ currentQuestionIndex' = 0
        /\ userAnswers' = <<>>
        /\ startTime' = now'
        /\ mounted' => quizTimeRemaining' = quizTimeLimit]_vars

\* The sequence questions is a selection from data: min(10, size) of its questions,
\* none of them twice.
IsSelectionOf(questions, data) ==
  /\ Len(questions) = Min(SessionSize, Len(data))
  /\ Range(questions) \subseteq Range(data)
  /\ \A i, j \in 1..Len(questions) : questions[i] = questions[j] => i = j

\* C19: the step that leaves the results for a retake ends with the quiz displayed, an
\* empty ledger, index 0, the start time of that instant, a running countdown of 900,
\* a question clock of 0, and a question set selected again from the data of the
\* category.
C19_RetakeResetsSession ==
  [][(status = "results" /\ status' = "quiz") =>
       /\ mounted' /\ ~crashed'
       /\ userAnswers' = <<>>
       /\ currentQuestionIndex' = 0
       /\ startTime' = now'
       /\ quizTimeRemaining' = quizTimeLimit /\ timerRunning'
       /\ questionTimer' = 0
       /\ QueryData(selectedCategory) # <<>> =>
            IsSelectionOf(currentQuizQuestions', QueryData(selectedCategory))]_vars

\* C19 witness: a retake was made of a quiz whose ledger had been filled; the earlier
\* result is still held, the quiz is displayed and the session is fresh.
C19_Witness ==
  /\ status = "quiz" /\ quizResult # <<>>
  /\ quizResult[1].totalQuestions = 2
  /\ mounted /\ userAnswers = <<>> /\ currentQuestionIndex = 0
  /\ quizTimeRemaining = quizTimeLimit

\* C20: every question set installed is a selection from the data of the category:
\* min(10, size) questions of the data, none of them twice; and so is every selection
\* the data of a category can give.
C20_SelectionFromPool ==
  [][/\ currentQuizQuestions' # currentQuizQuestions =>
          IsSelectionOf(currentQuizQuestions', QueryData(selectedCategory'))
     /\ \A k \in CategoryInputs :
          \A selected \in SelectQuestions(QueryData(k)) :
            IsSelectionOf(selected, QueryData(k))]_vars

\* C20 witness: the two-question pool gave a set of exactly its two questions, in the
\* other order.
C20_Witness ==
  /\ selectedCategory = Null
  /\ Len(Pool) = 2
  /\ currentQuizQuestions = << Pool[2].id, Pool[1].id >>

\* The data of the selected category has arrived and holds no question.
EmptyPoolSelected ==
  selectedCategory \in cache /\ QueryData(selectedCategory) = <<>>

\* C21 (as claimed): when the selected category turns out to hold no question, QuizApp
\* shows an error.
C21_EmptyPoolShowsError ==
  EmptyPoolSelected => View = "error"

\* C22 (as claimed): when the selected category turns out to hold no question, QuizApp
\* shows the loading view and no QuizContainer presents questions.
C22_EmptyPoolStaysLoading ==
  (EmptyPoolSelected /\ ~crashed) => (View = "loading" /\ ~mounted)

\* ------------------------------------------------------------- the clocks
\* C23: the countdown of a QuizContainer starts at 900 when it is mounted, stays
\* within 0..900, and while it runs it falls by exactly the seconds that pass: no
\* answer, skip or navigation changes it; once stopped at 0 it stays there.
C23_CountdownRunsOnce ==
  [][/\ 0 <= quizTimeRemaining' /\ quizTimeRemaining' <= quizTimeLimit
     /\ (~mounted /\ mounted') =>
          (quizTimeRemaining' = quizTimeLimit /\ timerRunning')
     /\ (mounted /\ mounted' /\ timerRunning) =>
          quizTimeRemaining - quizTimeRemaining' = now' - now
     /\ (mounted /\ mounted' /\ ~timerRunning) =>
          (quizTimeRemaining' = quizTimeRemaining /\ ~timerRunning')]_vars

\* C23 witness: a second of the countdown has passed, and after it a record was
\* written and the second question displayed; the countdown still shows 899.
C23_Witness ==
  /\ mounted /\ timerRunning
  /\ quizTimeRemaining = quizTimeLimit - 1
  /\ currentQuestionIndex = 1
  /\ questionStartTime = now
  /\ userAnswers # <<>>

\* C24: every change of the index restarts the question clock at 0, and the timeSpent
\* a handler records for the displayed question is the reading of that clock.
C24_QuestionClockRestarts ==
  [][/\ (mounted /\ mounted' /\ currentQuestionIndex' # currentQuestionIndex) =>
          (questionTimer' = 0 /\ questionStartTime' = now')
     /\ RecordsCurrent =>
          \A a \in RecordsOf(userAnswers', CurrentId) : a.timeSpent = questionTimer]_vars

\* C24 witness: the first question is displayed again after a second was spent
\* elsewhere; its clock reads 0 and its record holds a timeSpent of 0.
C24_Witness ==
  /\ mounted /\ restarts = 0
  /\ quizTimeRemaining = quizTimeLimit - 1
  /\ currentQuestionIndex = 0
  /\ questionStartTime = 1 /\ questionTimer = 0
  /\ \E a \in RecordsOf(userAnswers, CurrentId) : a.timeSpent = 0

\* C25: while the session is Submitted no QuizContainer is mounted, so neither the
\* question clock nor the countdown changes and the countdown cannot expire.
C25_ClocksStopWhenSubmitted ==
  [][Submitted =>
       /\ ~mounted /\ ~timerRunning
       /\ ~TimerExpires
       /\ Submitted' =>
            (questionTimer' = questionTimer
             /\ quizTimeRemaining' = quizTimeRemaining)]_vars

\* C25 witness: a second has passed since the result shown was computed, and the
\* session is Submitted with no clock running.
C25_Witness ==
  /\ Submitted /\ inflight = <<>>
  /\ now = quizResult[1].completedAt + 1
  /\ ~mounted /\ ~timerRunning

\* ------------------------------------------------------- counting and time
\* C26 (as claimed): the length of the ledger is the number of questions of the
\* current question set that have a record.
C26_CountAnsweredCountsSetQuestions ==
  Len(userAnswers) =
    Cardinality({ i \in 1..Len(currentQuizQuestions) :
                    RecordsOf(userAnswers, currentQuizQuestions[i]) # {} })

\* C27 (as claimed): while QuizApp shows the loading view or the results, the ledger
\* does not change (until a retake leaves the results).
C27_NoWriteWhenNotActive ==
  [][(View \in {"loading", "results"} /\ status' = status) =>
       userAnswers' = userAnswers]_vars

\* Results r1 and r2 hold the same answers, and r1 holds a correct answer that was
\* given in less time than in r2 (and none that took longer).
FasterCorrect(r1, r2) ==
  /\ Len(r1.questionResults) = Len(r2.questionResults)
  /\ \A i \in 1..Len(r1.questionResults) :
       /\ r1.questionResults[i].questionId = r2.questionResults[i].questionId
       /\ r1.questionResults[i].userAnswer = r2.questionResults[i].userAnswer
       /\ r1.questionResults[i].isCorrect = r2.questionResults[i].isCorrect
       /\ r1.questionResults[i].timeSpent <= r2.questionResults[i].timeSpent
  /\ \E i \in 1..Len(r1.questionResults) :
       /\ r1.questionResults[i].isCorrect
       /\ r1.questionResults[i].timeSpent < r2.questionResults[i].timeSpent

C29_TimeSpentIsCountdownUsed ==
  [][(Posted /\ mounted /\ mounted') =>
       NewResult.timeSpent = quizTimeLimit - quizTimeRemaining']_vars

\* ---------------------------------------------------------------- the sink
\* C30: the stored results have pairwise distinct identities, all below the next
\* identity, and getQuizResult of an identity returns the result stored under it; the
\* store changes only by one accepted result being added under the next identity; and
\* a body that fails validation is answered 400 and leaves the stored results and the
\* next identity as they are.
C30_SinkAssignsDistinctIdentities ==
  [][/\ \A i, j \in 1..Len(quizResults') :
          quizResults'[i].id = quizResults'[j].id => i = j
     /\ \A i \in 1..Len(quizResults') :
          /\ quizResults'[i].id < currentQuizResultId'
          /\ getQuizResult(quizResults', quizResults'[i].id) = <<quizResults'[i]>>
     /\ quizResults' # quizResults =>
          /\ \E r \in Range(inflight) :
               quizResults' =
                 Append(quizResults, createQuizResult(r, currentQuizResultId))
          /\ currentQuizResultId' = currentQuizResultId + 1
     /\ \A body \in InvalidBodies :
          postQuizResults(body, quizResults', currentQuizResultId') =
            [status |-> 400, quizResults |-> quizResults',
             currentQuizResultId |-> currentQuizResultId']]_vars

\* C30 witness: two results were accepted and are stored under the identities 1 and 2.
C30_Witness ==
  /\ Len(quizResults) = 2
  /\ quizResults[1].id = 1 /\ quizResults[2].id = 2
  /\ currentQuizResultId = 3

\* ------------------------------------------------------- the question storage
\* C31: through the initial load and every createQuestion and import, the stored
\* questions have pairwise distinct identities, all below the next identity, and a
\* question once stored stays where it is with its identity and its content.
C31_QuestionIdentitiesDistinctAndStable ==
  [][/\ \A i, j \in 1..Len(storageQuestions') :
          storageQuestions'[i].id = storageQuestions'[j].id => i = j
     /\ \A i \in 1..Len(storageQuestions') :
          storageQuestions'[i].id \in 1..(currentQuestionId' - 1)
     /\ Len(storageQuestions') >= Len(storageQuestions)
     /\ \A i \in 1..Len(storageQuestions) :
          storageQuestions'[i] = storageQuestions[i]]_vars

\* C31 witness: a question loaded from the file, then one created and one imported
\* with other contents: three questions under the identities 1, 2 and 3.
C31_Witness ==
  /\ Len(storageQuestions) = 3
  /\ \A i \in 1..3 : storageQuestions[i].id = i
  /\ storageQuestions[1].category = "x"
  /\ storageQuestions[2].category = "y"
  /\ storageQuestions[3].category = ""
  /\ currentQuestionId = 4

\* The labels a caller may ask fetchByCategory for.
CategoryLabels == {"x", "y", "z", ""}

\* C32: for every label, the questions fetched by category are exactly the fetched
\* questions whose category is the label, in their order; and every listed category
\* has a count equal to the number of questions fetched for its id, which is at
\* least 1.
C32_QuestionSourceConsistent ==
  /\ \A label \in CategoryLabels :
       LET all == storedQuestions(storageQuestions)
           isLabel(q) == q.category = label
       IN storedQuestionsByCategory(storageQuestions, label) = SelectSeq(all, isLabel)
  /\ \A entry \in getCategories(storageQuestions) :
       /\ entry.count = Len(storedQuestionsByCategory(storageQuestions, entry.id))
       /\ entry.count >= 1

\* C32 witness: after imports, two questions of category y, one without category and
\* none of category x: the only category listed is y, with count 2.
C32_Witness ==
  /\ Len(storageQuestions) = 3
  /\ getCategories(storageQuestions) = {[id |-> "y", name |-> "y", count |-> 2]}
  /\ Len(storedQuestionsByCategory(storageQuestions, "")) = 1

\* ------------------------------------------------------- "Skip All", time limit
\* The step in which "Skip All" is pressed.
SkipAllPressed == Len(pending') = Len(pending) + 1

\* C33 (as claimed): pressing "Skip All" gives every question of the set that has no
\* record the record {SKIPPED, 0, skipped} and leaves the records that exist as they
\* are, and the delayed follow-up submit then issues the POST of the ScoredResult
\* rather than reporting unanswered questions again.
C33_SkipAllThenSubmits ==
  [][/\ SkipAllPressed =>
          \A q \in Range(currentQuizQuestions) :
            IF RecordsOf(userAnswers, q) = {}
            THEN RecordsOf(userAnswers', q) =
                   {[questionId |-> q, answer |-> SKIPPED, timeSpent |-> 0,
                     skipped |-> TRUE]}
            ELSE RecordsOf(userAnswers', q) = RecordsOf(userAnswers, q)
     /\ ResubmitRuns => (Posted /\ toasts' = toasts)]_vars

\* The countdown of the mounted QuizContainer has reached zero.
CountdownOver == mounted /\ ~timerRunning /\ quizTimeRemaining = 0

\* C34 (as claimed): once the countdown has reached zero, no step of that session
\* changes the ledger any more, so that every ScoredResult produced afterwards is one
\* of the ledger at the instant the countdown reached zero.
C34_TimeLimitEnforced ==
  [][(CountdownOver /\ mounted' /\ currentQuizQuestions' = currentQuizQuestions) =>
       userAnswers' = userAnswers]_vars

\* A step that navigates: the displayed question changes within the same set, and the
\* step is neither an option selected nor Skip pressed.
Navigates ==
  /\ mounted /\ mounted'
  /\ currentQuizQuestions' = currentQuizQuestions
  /\ currentQuestionIndex' # currentQuestionIndex
  /\ ~SkipQuestion

\* What C35 protects of a record: the answer text and the skipped flag.
AnswerAndFlag(records) == { << a.answer, a.skipped >> : a \in records }

\* C35 (as claimed): a navigation step (Next, Previous, a question pill with its save)
\* leaves the answer text and the skipped flag of every record that exists as they are.
C35_NavigationKeepsAnswerAndFlag ==
  [][Navigates =>
       \A q \in Range(currentQuizQuestions) :
         RecordsOf(userAnswers, q) # {} =>
           AnswerAndFlag(RecordsOf(userAnswers', q)) =
             AnswerAndFlag(RecordsOf(userAnswers, q))]_vars

\* C36 (as claimed): a quiz displayed under a selected category holds only questions
\* of that category, and a ScoredResult whose topic is a category holds only
\* questions of that category.
C36_QuestionsOfSelectedCategory ==
  /\ (mounted /\ selectedCategory # Null) =>
       \A q \in Range(currentQuizQuestions) :
         QuestionById(q).category = selectedCategory
  /\ \A r \in HeldResults :
       r.quizTopic # "All Categories" =>
         \A i \in 1..Len(r.questionResults) :
           QuestionById(r.questionResults[i].questionId).category = r.quizTopic

\* C37 (as claimed): the result stored by an accepted POST, read back by its identity,
\* has the score, totalQuestions, timeSpent and topic of the ScoredResult sent and, in
\* the same order, its QuestionResults with questionId, userAnswer, correctAnswer,
\* isCorrect, timeSpent and the skipped flag.
C37_PersistReadBackRoundTrip ==
  [][quizResults' # quizResults =>
       \E r \in Range(inflight) :
         LET back == getQuizResult(quizResults', currentQuizResultId)
         IN /\ back # <<>>
            /\ back[1].score = r.score
            /\ back[1].totalQuestions = r.totalQuestions
            /\ back[1].timeSpent = r.timeSpent
            /\ back[1].quizTopic = r.quizTopic
            /\ back[1].questionResults = r.questionResults]_vars

\* C38 (as claimed): the Submit button issues a POST only when every question of the
\* set has a record, the ScoredResult it sends then has no QuestionResult with
\* userAnswer "", and with a question lacking a record the button changes no state.
C38_SubmitButtonGate ==
  [][SubmitClick =>
       IF \A q \in Range(currentQuizQuestions) : RecordsOf(userAnswers, q) # {}
       THEN Posted =>
              \A i \in 1..Len(NewResult.questionResults) :
                NewResult.questionResults[i].userAnswer # ""
       ELSE UNCHANGED vars]_vars

====
